---- MODULE Spec2Model ----
(***************************************************************************)
(* Review loop and label store of the two labelling tools:                 *)
(*   Clinical_labelling/support/XC_labeller.py      (ClinicalLabelTool)    *)
(*   Histopath_labelling/support/histopath_label_tool.py                   *)
(*                                                  (HistopathLabelTool)   *)
(* Spec: one labelling window over one catalog.  The variable variant says *)
(* which of the two programs runs; every handler of a window is one action.*)
(* SpecLauncher: the launcher opens further windows in the same process.   *)
(* SpecExport: the text of the exported file, written and read back.       *)
(* Positions are 0-based as in the source: images[index + 1] is the        *)
(* record the source calls self.images[self.index].                        *)
(***************************************************************************)
EXTENDS Integers, Sequences, FiniteSets, TLC

\* ---------------------------------------------------------------- bounds
\* longest catalog explored
MaxImages == 3
\* longest visit history explored (clinical tool; the list grows for ever)
MaxHistory == 5
\* longest SESSION["times"] explored (grading tool; jumps let it grow for ever)
MaxTimes == 3
\* comment dialogs open at the same time (clinical tool)
MaxDialogs == 1
\* width in pixels of the progress canvas (grading tool)
CanvasWidth == 7

\* ------------------------------------------------------------ vocabulary
Variants == {"clinical", "histopath"}
CaseNames == <<"A", "B">>
Whitespace == {" ", "\n", "\r", "\t"}
\* what the annotator may have typed in a comment box
Texts == {<<>>, <<" ">>, <<"r">>, <<" ", "r", " ">>}
\* seconds measured between display and submission, when ts are the
\* durations recorded so far: the n-th recorded duration is n seconds, so
\* that the entries of the list can be told apart
Elapsed(ts) == {Len(ts) + 1}
\* outcome of writing the output files
IoOutcomes == {"ok", "fail"}

ClinicalLabels == {"Suspicious", "Non-Suspicious", "NA"}
Diagnoses == {"Normal", "Dysplasia", "Cancer", "Indeterminate"}
Tissues == {"Stroma", "Epithelium", "Both"}
BinaryGrades == {"Low_Risk", "High_Risk"}
ThreeTierGrades == {"Mild", "Moderate", "Severe"}
DiffGrades == {"Well_Differentiated", "Moderately_Differentiated", "Poorly_Differentiated"}

\* ------------------------------------------------------------ dict helpers
EmptyDict == [k \in {} |-> TRUE]
Has(d, k) == k \in DOMAIN d
Get(d, k, default) == IF k \in DOMAIN d THEN d[k] ELSE default
Put(d, k, v) == [x \in (DOMAIN d) \cup {k} |-> IF x = k THEN v ELSE d[x]]
\* a delete that empties the dict
Del_all(d, k) == [x \in {} |-> d[x]]

Del(d, k) == [x \in (DOMAIN d) \ {k} |-> d[x]]
Pop(s) == SubSeq(s, 1, Len(s) - 1)

\* ------------------------------------------------------------ str.strip()
RECURSIVE lstrip(_)
lstrip(s) == IF s = <<>> THEN s
             ELSE IF Head(s) \in Whitespace THEN lstrip(Tail(s)) ELSE s

RECURSIVE rstrip(_)
rstrip(s) == IF s = <<>> THEN s
             ELSE IF s[Len(s)] \in Whitespace THEN rstrip(Pop(s)) ELSE s

strip(s) == rstrip(lstrip(s))

\* Text.get("1.0", tk.END).strip(): the widget's content, the newline Tk
\* appends, stripped
widget_text(typed) == strip(typed \o <<"\n">>)

\* ---------------------------------------------------------------- catalog
\* The catalog builders return a list sorted by case whose resolved paths
\* are pairwise distinct: n images, the first k of case A, the others of B.
\* Explored: one case, and two cases with the last image alone in its case.
\* A catalog record keeps the fields the handlers read, under the clinical
\* tool's names (the grading tool calls them case_id and filename).
ImageAt(i, k) ==
    LET c == IF i <= k THEN CaseNames[1] ELSE CaseNames[2]
        f == "img" \o ToString(i) \o ".jpg"
    IN  [case |-> c, file |-> f, path |-> c \o "/V1/" \o f]

Catalog(n, k) == [i \in 1..n |-> ImageAt(i, k)]

Catalogs == {Catalog(n, n) : n \in 1..MaxImages}
            \cup {Catalog(n, n - 1) : n \in 2..MaxImages}

\* find_clinical_images collects the images of every folder under a visit
\* whose name contains "xc" or "clinical" and sorts by (case, visit,
\* str(path)): two such folders put img2.jpg of the first folder before
\* img1.jpg of the second
ScatteredCatalog ==
    <<[case |-> CaseNames[1], file |-> "img2.jpg", path |-> "A/V1/XC_a/img2.jpg"],
      [case |-> CaseNames[1], file |-> "img1.jpg", path |-> "A/V1/XC_b/img1.jpg"]>>

\* the catalogs a tool can be started on
CatalogsOf(v) == IF v = "clinical" THEN Catalogs \cup {ScatteredCatalog} ELSE Catalogs

\* Python's order of the strings that occur as case names and as file names
case_rank(c) == CHOOSE i \in 1..Len(CaseNames) : CaseNames[i] = c
file_rank(f) == CHOOSE i \in 1..(MaxImages + 1) : f = "img" \o ToString(i) \o ".jpg"

\* the sort key of _write_csv: (case, visit, file), (case_id, visit_id,
\* body_site, mag_value, filename) in the grading tool; the catalogs explored
\* have one visit, body site and magnification, and no two records with
\* equal keys
row_before(a, b) ==
    \/ case_rank(a.case) < case_rank(b.case)
    \/ a.case = b.case /\ file_rank(a.file) < file_rank(b.file)

\* a cleaning that replaces the line feeds only
clean_comment_lf_only(c) == [i \in 1..Len(c) |-> IF c[i] = "\n" THEN " " ELSE c[i]]

\* row.get("comment", "").replace("\n", " ").replace("\r", " ")
clean_comment(c) == [i \in 1..Len(c) |-> IF c[i] \in {"\n", "\r"} THEN " " ELSE c[i]]

\* _write_csv: the rows written for the store lbls, in the order written
write_csv(lbls) ==
    LET pos(k) == 1 + Cardinality({q \in DOMAIN lbls : row_before(lbls[q], lbls[k])})
    IN  [i \in 1..Cardinality(DOMAIN lbls) |->
            LET r == lbls[CHOOSE k \in DOMAIN lbls : pos(k) = i]
            IN  [r EXCEPT !.comment = clean_comment(r.comment)]]

\* get_key: the resolved path; catalog paths are resolved already
get_key(path) == path

VARIABLES
    variant,           \* which program runs
    images,            \* self.images
    index,             \* self.index
    labels,            \* self.labels: key -> record
    history,           \* self.history (clinical)
    pointer,           \* self.pointer (clinical)
    image_start_time,  \* self.image_start_time: "None" or "set"
    dialogs,           \* open NA comment dialogs: position shown when opened
    current_grading,   \* self.current_grading (grading tool)
    secondary,         \* whose buttons self.secondary_frame holds
    save_button,       \* a "SAVE" button exists in self.secondary_frame
    times,             \* SESSION["times"]
    cases,             \* SESSION["cases"]
    last_case,         \* SESSION["last_case"]
    end_time,          \* SESSION["end_time"]: "None" or "set"
    label_count,       \* what the counts line of the window shows
    window,            \* "labelling", "review" (ReviewWindow), "closed"
    final_export,      \* outcome of the final export: "none", "written", "failed"
    shown,             \* positions displayed so far (observation only)
    last_event,        \* the last handler that changed or wrote something, and where
    banner,            \* the last display raised the "NEW CASE" banner
    sessions,          \* labelling windows the launcher has opened so far
    other,             \* a second labelling window open beside this one
    output_file        \* text of the CSV file at self.output_file, empty before it is written

navVars == <<index, history, pointer>>
formVars == <<current_grading, secondary, save_button>>
sessVars == <<times, cases, last_case, end_time>>
vars == <<variant, images, index, labels, history, pointer, image_start_time,
          dialogs, current_grading, secondary, save_button, times, cases,
          last_case, end_time, label_count, window, final_export, shown,
          last_event, banner, sessions, other, output_file>>

\* number of values v of the dict d with v[field] = value
CountWhere(d, field, value) == Cardinality({k \in DOMAIN d : d[k][field] = value})

\* ClinicalLabelTool.update_info_display: the counts line
C_counts(lbls) ==
    [total |-> Cardinality(DOMAIN lbls),
     Suspicious |-> CountWhere(lbls, "label", "Suspicious"),
     NonSuspicious |-> CountWhere(lbls, "label", "Non-Suspicious"),
     NA |-> CountWhere(lbls, "label", "NA")]

\* HistopathLabelTool.show_image: progress_label "Labeled: x/N"
H_progress(lbls) == [total |-> Cardinality(DOMAIN lbls)]

\* ClinicalLabelTool._write_summary and ReviewWindow.save: label statistics
C_summary_counts(lbls) ==
    [Suspicious |-> CountWhere(lbls, "label", "Suspicious"),
     NonSuspicious |-> CountWhere(lbls, "label", "Non-Suspicious"),
     NA |-> CountWhere(lbls, "label", "NA")]

\* HistopathLabelTool._write_summary: counts[d] for the diagnoses that occur
H_summary_counts(lbls) ==
    [d \in {lbls[k].diagnosis : k \in DOMAIN lbls} |-> CountWhere(lbls, "diagnosis", d)]

N == Len(images)

\* Python's list[i]: a negative i counts from the end
PyAt(seq, i) == IF i < 0 THEN seq[Len(seq) + i + 1] ELSE seq[i + 1]

\* self.images[i] and the key of its path
ImageOf(i) == PyAt(images, i)
KeyAt(i) == get_key(ImageOf(i).path)

\* a store that merges: an empty new comment keeps the old record's comment
Upsert_merging(lbls, key, rec) ==
    IF key \in DOMAIN lbls /\ rec.comment = <<>>
    THEN Put(lbls, key, [rec EXCEPT !.comment = lbls[key].comment])
    ELSE Put(lbls, key, rec)

\* a store that appends: a second submission for a key adds a second record
Upsert_appending(lbls, key, rec) ==
    IF key \in DOMAIN lbls THEN Put(lbls, key \o "#2", rec) ELSE Put(lbls, key, rec)

\* self.labels[key] = {...}: the record under key is replaced as a whole
Upsert(lbls, key, rec) == Put(lbls, key, rec)

\* an advance that skips the positions that hold a record already
next_index_unlabelled(i) ==
    IF \E j \in (i + 1)..(Len(images) - 1) : images[j + 1].path \notin DOMAIN labels
    THEN CHOOSE j \in (i + 1)..(Len(images) - 1) :
             /\ images[j + 1].path \notin DOMAIN labels
             /\ \A m \in (i + 1)..(j - 1) : images[m + 1].path \in DOMAIN labels
    ELSE Len(images)

\* an advance by two positions
next_index_by_two(i) == i + 2

\* self.index += 1 after a submission
next_index(i) == i + 1

\* a check that lets every comment pass
not_comment_never(comment) == FALSE

\* Python's "not comment" for a stripped comment
not_comment(comment) == comment = <<>>

\* a partial export that stamps the end of the session
partial_end_time_stamped(t) == "set"

\* _write_csv(partial=True) and _write_summary(True) read SESSION["end_time"]
\* and leave it as it is
partial_end_time(t) == t

\* a step back that keeps every duration
pop_time_kept(ts) == ts

\* a pop that removes the oldest duration
pop_time_oldest(ts) == IF ts # <<>> THEN Tail(ts) ELSE ts

\* go_back: if SESSION["times"]: SESSION["times"].pop()
pop_time(ts) == IF ts # <<>> THEN Pop(ts) ELSE ts

\* observation of a handler that changed something: its name, what it did
\* and the position it was invoked at
Event(name, result, at) == [name |-> name, result |-> result, at |-> at]

\* observation of a submission that stored a record: the values passed to
\* the storing function and whether the key had a record before
Stored(name, at, category, subtype, comment, replaced) ==
    [name |-> name, result |-> "stored", at |-> at, category |-> category,
     subtype |-> subtype, comment |-> comment, replaced |-> replaced]

\* show_banner_if_new_case: the banner is raised when a case is remembered
\* and it is not the case of the image to display
new_case(remembered, current_case) ==
    remembered # "None" /\ remembered # current_case

\* no second window is open
NoWindow == [window |-> "none"]

Init ==
    /\ variant \in Variants
    /\ images \in CatalogsOf(variant)
    /\ index = 0
    /\ labels = EmptyDict
    /\ history = IF variant = "clinical" THEN <<KeyAt(0)>> ELSE <<>>
    /\ pointer = IF variant = "clinical" THEN 0 ELSE -1
    /\ image_start_time = "set"
    /\ dialogs = <<>>
    /\ current_grading = EmptyDict
    /\ secondary = "none"
    /\ save_button = FALSE
    /\ times = <<>>
    /\ cases = {}
    /\ last_case = ImageOf(0).case
    /\ end_time = "None"
    /\ label_count = IF variant = "clinical" THEN C_counts(EmptyDict)
                                              ELSE H_progress(EmptyDict)
    /\ window = "labelling"
    /\ final_export = "none"
    /\ shown = {0}
    /\ last_event = Event("init", "shown", 0)
    /\ banner = FALSE
    /\ sessions = 1
    /\ other = NoWindow
    /\ output_file = <<>>

\* The buttons the annotator presses.  Every button is pressed on a catalog
\* of one image; on a catalog of two images one button of each group (both
\* label buttons of the clinical tool); on longer catalogs the two diagnoses
\* without grading tiers (clinical tool: Suspicious and the NA dialog).  The handlers
\* are the same for every catalog; this keeps the label stores of long
\* catalogs enumerable.
Pressed(group) ==
    IF N = 1 THEN group
    ELSE IF N = 2
         THEN group \ {"Epithelium", "Both", "High_Risk", "Moderate", "Severe",
                       "Moderately_Differentiated", "Poorly_Differentiated"}
         ELSE group \cap {"Normal", "Indeterminate", "Stroma", "Suspicious"}

\* ======================================================================
\* Clinical tool (XC_labeller.py)
\* ======================================================================

\* ClinicalLabelTool.finish: end time, the window and its dialogs are
\* destroyed, the ReviewWindow opens on the same labels
C_finish ==
    /\ end_time' = "set"
    /\ dialogs' = <<>>
    /\ window' = "review"
    /\ final_export' = final_export

\* show_image appends to the history unless the entry under the pointer is
\* the key to display
C_appends(i, ptr) ==
    IF ptr = -1 THEN TRUE ELSE history # <<>> /\ history[ptr + 1] # KeyAt(i)

\* the history list is explored up to MaxHistory entries
C_history_room(i, ptr) ==
    IF i >= N THEN TRUE
    ELSE IF C_appends(i, ptr) THEN Len(history) < MaxHistory ELSE TRUE

\* ClinicalLabelTool.show_image for self.index = i, self.pointer = ptr,
\* self.image_start_time = ist, open dialogs dlgs, self.labels = lbls
C_show_image(i, ptr, ist, dlgs, lbls) ==
    IF i >= N
    THEN /\ C_finish
         /\ history' = history
         /\ pointer' = ptr
         /\ image_start_time' = ist
         /\ last_case' = last_case
         /\ banner' = banner
         /\ label_count' = label_count
         /\ shown' = shown
    ELSE /\ shown' = shown \cup {i}
         /\ history' = IF C_appends(i, ptr) THEN Append(history, KeyAt(i)) ELSE history
         /\ pointer' = IF C_appends(i, ptr) THEN Len(history) ELSE ptr
         /\ image_start_time' = "set"
         /\ banner' = new_case(last_case, ImageOf(i).case)
         /\ last_case' = ImageOf(i).case
         /\ label_count' = C_counts(lbls)
         /\ dialogs' = dlgs
         /\ UNCHANGED <<end_time, window, final_export>>

\* ClinicalLabelTool.save_label(label, comment); dlgs: the dialogs left open
save_label(label, comment, dlgs) ==
    IF index >= N
    THEN UNCHANGED <<index, labels, history, pointer, image_start_time, dialogs,
                     times, cases, last_case, banner, end_time, label_count, window, final_export,
                     shown, last_event>>
    ELSE LET img_info == ImageOf(index)
             key == get_key(img_info.path)
             rec == [case |-> img_info.case, file |-> img_info.file,
                     label |-> label, comment |-> comment]
             lbls == Upsert(labels, key, rec)
         IN  /\ C_history_room(next_index(index), pointer)
             /\ labels' = lbls
             /\ \E elapsed \in Elapsed(times) :
                    times' = IF image_start_time # "None"
                             THEN Append(times, elapsed) ELSE times
             /\ cases' = cases \cup {img_info.case}
             /\ index' = next_index(index)
             /\ C_show_image(next_index(index), pointer, "None", dlgs, lbls)
             /\ last_event' = Stored("save_label", index, label, "", comment,
                                     key \in DOMAIN labels)

\* the Suspicious and Non-Suspicious buttons
C_label_button(label) ==
    /\ variant = "clinical" /\ window = "labelling"
    /\ save_label(label, <<>>, dialogs)
    /\ UNCHANGED <<variant, images, sessions, other, output_file, formVars>>

\* ClinicalLabelTool.comment_window: the NA button opens a dialog
comment_window ==
    /\ variant = "clinical" /\ window = "labelling"
    /\ Len(dialogs) < MaxDialogs
    /\ dialogs' = Append(dialogs, index)
    /\ last_event' = Event("comment_window", "opened", index)
    /\ UNCHANGED <<variant, images, sessions, other, output_file, index, labels, history, pointer, image_start_time,
                   formVars, sessVars, banner, label_count, window, final_export, shown>>

\* comment_window.save_na: the dialog's "Save as NA" button
save_na(d, typed) ==
    /\ variant = "clinical" /\ window = "labelling"
    /\ d \in 1..Len(dialogs)
    /\ save_label("NA", widget_text(typed),
                  [j \in 1..(Len(dialogs) - 1) |-> IF j < d THEN dialogs[j] ELSE dialogs[j + 1]])
    /\ UNCHANGED <<variant, images, sessions, other, output_file, formVars>>

\* position of the catalog record whose key is k (the loop of go_back)
C_index_of(k, default) ==
    IF \E i \in 0..(N - 1) : KeyAt(i) = k
    THEN CHOOSE i \in 0..(N - 1) : KeyAt(i) = k /\ \A j \in 0..(i - 1) : KeyAt(j) # k
    ELSE default

\* ClinicalLabelTool.go_back
C_go_back ==
    /\ variant = "clinical" /\ window = "labelling"
    /\ IF pointer > 0
       THEN LET ptr == pointer - 1
                prev_key == history[ptr + 1]
                i == C_index_of(prev_key, index)
            IN  /\ C_history_room(i, ptr)
                /\ index' = i
                /\ times' = pop_time(times)
                /\ C_show_image(i, ptr, image_start_time, dialogs, labels)
                /\ last_event' = Event("go_back", "moved", index)
                /\ UNCHANGED <<labels, cases>>
       ELSE UNCHANGED <<index, labels, history, pointer, image_start_time, dialogs,
                      sessVars, banner, label_count, window, final_export, shown, last_event>>
    /\ UNCHANGED <<variant, images, sessions, other, output_file, formVars>>

\* ClinicalLabelTool.relabel_current
C_relabel_current ==
    /\ variant = "clinical" /\ window = "labelling"
    /\ IF index < N /\ KeyAt(index) \in DOMAIN labels
       THEN /\ labels' = Del(labels, KeyAt(index))
            /\ label_count' = C_counts(labels')
            /\ last_event' = Event("relabel_current", "cleared", index)
       ELSE UNCHANGED <<labels, label_count, last_event>>
    /\ UNCHANGED <<variant, images, sessions, other, output_file, navVars, image_start_time, dialogs, formVars,
                   sessVars, banner, window, final_export, shown>>

\* a save_progress that reports success whatever the writes did
save_progress_message_quiet(lbls, io) ==
    IF DOMAIN lbls = {} THEN "warning" ELSE "saved"

\* what save_progress tells the user: a warning when there is nothing to
\* write, else the outcome of _write_csv(partial=True)
save_progress_message(lbls, io) ==
    IF DOMAIN lbls = {} THEN "warning" ELSE IF io = "ok" THEN "saved" ELSE "error"

\* ClinicalLabelTool.save_progress: partial export, io is what the writes do
C_save_progress(io) ==
    /\ variant = "clinical" /\ window = "labelling"
    /\ io \in IF DOMAIN labels = {} THEN {"ok"} ELSE IoOutcomes
    /\ end_time' = partial_end_time(end_time)
    /\ last_event' = Event("save_progress", save_progress_message(labels, io), index)
    /\ UNCHANGED <<variant, images, sessions, other, output_file, navVars, labels, image_start_time, dialogs,
                   formVars, times, cases, last_case, banner, label_count, window, final_export, shown>>

\* ReviewWindow.save: final export; the window closes when the writes succeed
R_save(io) ==
    /\ variant = "clinical" /\ window = "review"
    /\ window' = IF io = "ok" THEN "closed" ELSE "review"
    /\ final_export' = IF io = "ok" THEN "written" ELSE "failed"
    /\ end_time' = "set"
    /\ last_event' = Event("review_save", io, index)
    /\ UNCHANGED <<variant, images, sessions, other, output_file, navVars, labels, image_start_time, dialogs,
                   formVars, times, cases, last_case, banner, label_count, shown>>

\* ReviewWindow: the Close button
R_close ==
    /\ variant = "clinical" /\ window = "review"
    /\ window' = "closed"
    /\ final_export' = final_export
    /\ last_event' = Event("review_close", "closed", index)
    /\ UNCHANGED <<variant, images, sessions, other, output_file, navVars, labels, image_start_time, dialogs,
                   formVars, sessVars, banner, label_count, shown>>

C_Next ==
    \/ \E l \in Pressed({"Suspicious", "Non-Suspicious"}) : C_label_button(l)
    \/ comment_window
    \/ \E d \in 1..MaxDialogs, typed \in Texts : save_na(d, typed)
    \/ C_go_back
    \/ C_relabel_current
    \/ \E io \in IoOutcomes : C_save_progress(io)
    \/ \E io \in IoOutcomes : R_save(io)
    \/ R_close

\* ======================================================================
\* Grading tool (histopath_label_tool.py)
\* ======================================================================

Max2(a, b) == IF a >= b THEN a ELSE b

\* HistopathLabelTool.finish: nothing to write closes the window; otherwise
\* the window closes only when the export succeeds
H_finish(lbls, io) ==
    /\ end_time' = "set"
    /\ window' = IF DOMAIN lbls = {} THEN "closed"
                 ELSE IF io = "ok" THEN "closed" ELSE "labelling"
    /\ final_export' = IF DOMAIN lbls = {} THEN final_export
                       ELSE IF io = "ok" THEN "written" ELSE "failed"

\* HistopathLabelTool.show_image for self.index = i, self.labels = lbls;
\* the form is reset only when an image is shown
H_show_image(i, lbls, io) ==
    IF i >= N
    THEN /\ H_finish(lbls, io)
         /\ UNCHANGED <<image_start_time, last_case, banner, label_count, secondary,
                        save_button, shown>>
    ELSE /\ shown' = shown \cup {i}
         /\ image_start_time' = "set"
         /\ banner' = new_case(last_case, ImageOf(i).case)
         /\ last_case' = ImageOf(i).case
         /\ label_count' = H_progress(lbls)
         /\ secondary' = "none"
         /\ save_button' = FALSE
         /\ UNCHANGED <<end_time, window, final_export>>

\* HistopathLabelTool.update_grading_display: whether it calls
\* show_save_button for the grading g; otherwise the buttons stay as they are
H_shows_save(g) ==
    IF Get(g, "ungradable", FALSE) THEN TRUE
    ELSE IF Get(g, "diagnosis", "None") = "Dysplasia"
         THEN Has(g, "binary") /\ Has(g, "three_tier")
         ELSE IF Get(g, "diagnosis", "None") = "Cancer"
              THEN Has(g, "three_tier_diff")
              ELSE FALSE

\* HistopathLabelTool.select_primary
select_primary(diagnosis) ==
    /\ variant = "histopath" /\ window = "labelling"
    /\ current_grading' = [k \in {"diagnosis"} |-> diagnosis]
    /\ secondary' = diagnosis
    /\ save_button' = H_shows_save(current_grading')
    /\ last_event' = Event("select_primary", diagnosis, index)
    /\ UNCHANGED <<variant, images, sessions, other, output_file, navVars, labels, image_start_time, dialogs,
                   sessVars, banner, label_count, window, final_export, shown>>

\* the tier buttons the secondary frame holds
H_tier_values(tier) ==
    IF tier = "binary" THEN BinaryGrades
    ELSE IF tier = "three_tier" THEN ThreeTierGrades
    ELSE DiffGrades

H_tiers == IF secondary = "Dysplasia" THEN {"binary", "three_tier"}
           ELSE IF secondary = "Cancer" THEN {"three_tier_diff"}
           ELSE {}

\* HistopathLabelTool.select_grading
select_grading(tier, value) ==
    /\ variant = "histopath" /\ window = "labelling"
    /\ tier \in H_tiers /\ value \in H_tier_values(tier)
    /\ current_grading' = Put(Del(current_grading, "ungradable"), tier, value)
    /\ save_button' = (save_button \/ H_shows_save(current_grading'))
    /\ last_event' = Event("select_grading", value, index)
    /\ UNCHANGED <<variant, images, sessions, other, output_file, navVars, labels, image_start_time, dialogs,
                   secondary, sessVars, banner, label_count, window, final_export, shown>>

\* HistopathLabelTool.select_ungradable
select_ungradable ==
    /\ variant = "histopath" /\ window = "labelling"
    /\ secondary \in {"Dysplasia", "Cancer"}
    /\ current_grading' =
           Put([k \in (DOMAIN current_grading) \cap {"diagnosis"} |-> current_grading[k]],
               "ungradable", TRUE)
    /\ save_button' = (save_button \/ H_shows_save(current_grading'))
    /\ last_event' = Event("select_ungradable", "ungradable", index)
    /\ UNCHANGED <<variant, images, sessions, other, output_file, navVars, labels, image_start_time, dialogs,
                   secondary, sessVars, banner, label_count, window, final_export, shown>>

\* a handler that returns after a message box, or raises before it assigns
H_unchanged ==
    UNCHANGED <<index, labels, image_start_time, formVars, sessVars, banner,
                label_count, window, final_export, shown, last_event>>

\* HistopathLabelTool.save_label_to_storage
save_label_to_storage(name, diagnosis, subtype, comment, io) ==
    IF index >= N
    THEN H_unchanged
    ELSE LET img_info == ImageOf(index)
             key == get_key(img_info.path)
             rec == [case |-> img_info.case, file |-> img_info.file,
                     diagnosis |-> diagnosis, subtype |-> subtype,
                     comment |-> comment]
             lbls == Upsert(labels, key, rec)
         IN  /\ Len(times) < MaxTimes
             /\ labels' = lbls
             /\ \E elapsed \in Elapsed(times) :
                    times' = IF image_start_time # "None"
                             THEN Append(times, elapsed) ELSE times
             /\ cases' = cases \cup {img_info.case}
             /\ index' = next_index(index)
             /\ current_grading' = EmptyDict
             /\ H_show_image(next_index(index), lbls, io)
             /\ last_event' = Stored(name, index, diagnosis, subtype, comment,
                                     key \in DOMAIN labels)

\* HistopathLabelTool.save_label_simple: the tissue buttons of Normal and
\* the save button of Indeterminate
save_label_simple(subtype, typed, io) ==
    /\ variant = "histopath" /\ window = "labelling"
    /\ IF secondary = "Normal" THEN subtype \in Tissues
       ELSE IF secondary = "Indeterminate" THEN subtype = ""
       ELSE FALSE
    /\ LET comment == widget_text(typed)
           diagnosis == Get(current_grading, "diagnosis", "None")
       IN  IF diagnosis = "Indeterminate" /\ not_comment(comment)
           THEN H_unchanged
           ELSE save_label_to_storage("save_label_simple", diagnosis, subtype, comment, io)
    /\ UNCHANGED <<variant, images, sessions, other, output_file, history, pointer, dialogs>>

\* HistopathLabelTool.save_multi_tier_label: the SAVE button
save_multi_tier_label(typed, io) ==
    /\ variant = "histopath" /\ window = "labelling"
    /\ save_button
    /\ LET diagnosis == Get(current_grading, "diagnosis", "None")
           comment == widget_text(typed)
           g == current_grading
       IN  IF Get(g, "ungradable", FALSE)
           THEN IF not_comment(comment)
                THEN H_unchanged
                ELSE save_label_to_storage("save_multi_tier_label", diagnosis,
                                           "Ungradable", comment, io)
           ELSE IF diagnosis = "Dysplasia"
           THEN IF ~Has(g, "binary") \/ ~Has(g, "three_tier")
                THEN H_unchanged
                ELSE save_label_to_storage("save_multi_tier_label", diagnosis,
                         "Binary:" \o g["binary"] \o "|ThreeTier:" \o g["three_tier"],
                         comment, io)
           ELSE IF diagnosis = "Cancer"
           THEN IF ~Has(g, "three_tier_diff")
                THEN H_unchanged
                ELSE save_label_to_storage("save_multi_tier_label", diagnosis,
                         "ThreeTier:" \o g["three_tier_diff"], comment, io)
           ELSE H_unchanged
    /\ UNCHANGED <<variant, images, sessions, other, output_file, history, pointer, dialogs>>

\* a guard that lets next_image leave the last image
has_next_at_last(i) == i < N

\* HistopathLabelTool.next_image: "if self.index < len(self.images) - 1"
has_next(i) == i < N - 1

\* HistopathLabelTool.next_image
next_image ==
    /\ variant = "histopath" /\ window = "labelling"
    /\ IF has_next(index)
       THEN /\ index' = index + 1
            /\ current_grading' = EmptyDict
            /\ H_show_image(index + 1, labels, "ok")
            /\ last_event' = Event("next_image", "moved", index)
            /\ UNCHANGED <<labels, times, cases>>
       ELSE H_unchanged
    /\ UNCHANGED <<variant, images, sessions, other, output_file, history, pointer, dialogs>>

\* a guard that lets go_back leave the first position
H_can_go_back_from_first(i) == i >= 0

\* HistopathLabelTool.go_back: "if self.index > 0"
H_can_go_back(i) == i > 0

\* HistopathLabelTool.go_back
H_go_back ==
    /\ variant = "histopath" /\ window = "labelling"
    /\ IF H_can_go_back(index)
       THEN /\ index' = index - 1
            /\ current_grading' = EmptyDict
            /\ times' = pop_time(times)
            /\ H_show_image(index - 1, labels, "ok")
            /\ last_event' = Event("go_back", "moved", index)
            /\ UNCHANGED <<labels, cases>>
       ELSE H_unchanged
    /\ UNCHANGED <<variant, images, sessions, other, output_file, history, pointer, dialogs>>

\* on_progress_click: idx = event.x // max(2, w // len(self.images))
progress_target(x) == x \div Max2(2, CanvasWidth \div N)

\* a range check that lets the position after the last image pass
in_catalog_or_end(idx) == 0 <= idx /\ idx <= N

\* on_progress_click: "if 0 <= idx < len(self.images)"
in_catalog(idx) == 0 <= idx /\ idx < N

\* HistopathLabelTool.on_progress_click: a click at pixel x of the canvas
on_progress_click(x) ==
    /\ variant = "histopath" /\ window = "labelling"
    /\ LET idx == progress_target(x)
       IN  IF in_catalog(idx)
           THEN /\ index' = idx
                /\ current_grading' = EmptyDict
                /\ H_show_image(idx, labels, "ok")
                /\ last_event' = Event("on_progress_click", "moved", index)
                /\ UNCHANGED <<labels, times, cases>>
           ELSE H_unchanged
    /\ UNCHANGED <<variant, images, sessions, other, output_file, history, pointer, dialogs>>

\* HistopathLabelTool.relabel_current
H_relabel_current ==
    /\ variant = "histopath" /\ window = "labelling"
    /\ IF index < N /\ KeyAt(index) \in DOMAIN labels
       THEN /\ labels' = Del(labels, KeyAt(index))
            /\ current_grading' = EmptyDict
            /\ H_show_image(index, labels', "ok")
            /\ last_event' = Event("relabel_current", "cleared", index)
            /\ UNCHANGED <<index, times, cases>>
       ELSE H_unchanged
    /\ UNCHANGED <<variant, images, sessions, other, output_file, history, pointer, dialogs>>

\* HistopathLabelTool.save_progress: partial export, io is what the writes do
H_save_progress(io) ==
    /\ variant = "histopath" /\ window = "labelling"
    /\ io \in IF DOMAIN labels = {} THEN {"ok"} ELSE IoOutcomes
    /\ end_time' = partial_end_time(end_time)
    /\ last_event' = Event("save_progress", save_progress_message(labels, io), index)
    /\ UNCHANGED <<variant, images, sessions, other, output_file, navVars, labels, image_start_time, dialogs,
                   formVars, times, cases, last_case, banner, label_count, window, final_export, shown>>

\* the export runs inside a submission only when it shows the last position
H_io == IF index + 1 >= N THEN IoOutcomes ELSE {"ok"}

H_Next ==
    \/ \E d \in Pressed(Diagnoses) : select_primary(d)
    \/ \E tier \in {"binary", "three_tier", "three_tier_diff"} :
           \E value \in Pressed(H_tier_values(tier)) : select_grading(tier, value)
    \/ select_ungradable
    \/ \E subtype \in Pressed(Tissues) \cup {""}, typed \in Texts, io \in H_io :
           save_label_simple(subtype, typed, io)
    \/ \E typed \in Texts, io \in H_io : save_multi_tier_label(typed, io)
    \/ next_image
    \/ H_go_back
    \/ \E x \in 0..(CanvasWidth - 1) : on_progress_click(x)
    \/ H_relabel_current
    \/ \E io \in IoOutcomes : H_save_progress(io)

Next == C_Next \/ H_Next

Spec == Init /\ [][Next]_vars

\* ======================================================================
\* Launcher (run): the launcher window outlives the labelling windows
\* ======================================================================

\* windows the launcher opens in one process
MaxSessions == 2

\* longest catalog explored when the launcher opens more than one window
LauncherImages == 2

\* the folders the annotator picks for a further window
LauncherCatalogs == {c \in CatalogsOf(variant) : Len(c) <= LauncherImages}

\* run after the window of the previous session has gone: the launcher opens
\* a new labelling window; __init__ assigns the fields of the new object and
\* SESSION["start_time"], show_image displays position 0; the other entries
\* of SESSION stay as the previous session left them
run_again(imgs) ==
    /\ window = "closed"
    /\ sessions < MaxSessions
    /\ sessions' = sessions + 1
    /\ images' = imgs
    /\ index' = 0
    /\ labels' = EmptyDict
    /\ history' = IF variant = "clinical" THEN <<get_key(imgs[1].path)>> ELSE <<>>
    /\ pointer' = IF variant = "clinical" THEN 0 ELSE -1
    /\ image_start_time' = "set"
    /\ dialogs' = <<>>
    /\ current_grading' = EmptyDict
    /\ secondary' = "none"
    /\ save_button' = FALSE
    /\ banner' = new_case(last_case, imgs[1].case)
    /\ last_case' = imgs[1].case
    /\ label_count' = IF variant = "clinical" THEN C_counts(EmptyDict)
                                               ELSE H_progress(EmptyDict)
    /\ window' = "labelling"
    /\ final_export' = "none"
    /\ shown' = {0}
    /\ last_event' = Event("run", "shown", 0)
    /\ UNCHANGED <<variant, times, cases, end_time, other, output_file>>

\* run while a labelling window is open: a second window of the same tool
\* with fields of its own; its show_image remembers the case of its first
\* image in SESSION
run_beside(imgs) ==
    /\ window = "labelling"
    /\ other = NoWindow
    /\ sessions < MaxSessions
    /\ sessions' = sessions + 1
    /\ other' = [window |-> "labelling", images |-> imgs, index |-> 0,
                 labels |-> EmptyDict, banner |-> new_case(last_case, imgs[1].case)]
    /\ last_case' = imgs[1].case
    /\ last_event' = Event("run", "beside", index)
    /\ UNCHANGED <<variant, images, navVars, labels, image_start_time, dialogs,
                   formVars, times, cases, end_time, banner, label_count, window,
                   final_export, shown, output_file>>

\* the record the second window stores: the Suspicious button of the
\* clinical tool, Normal / Stroma of the grading tool
O_record(img_info) ==
    IF variant = "clinical"
    THEN [case |-> img_info.case, file |-> img_info.file,
          label |-> "Suspicious", comment |-> <<>>]
    ELSE [case |-> img_info.case, file |-> img_info.file,
          diagnosis |-> "Normal", subtype |-> "Stroma", comment |-> <<>>]

\* a label submission in the second window (save_label of the clinical
\* tool, save_label_to_storage of the grading tool): the record goes to the
\* store of that window, duration and case go to SESSION, and the next
\* position is shown or the window finishes
O_save_label(io) ==
    /\ other.window = "labelling"
    /\ other.index < Len(other.images)
    /\ Len(times) < MaxTimes
    /\ LET img_info == other.images[other.index + 1]
           lbls == Upsert(other.labels, get_key(img_info.path), O_record(img_info))
           i == next_index(other.index)
       IN  /\ \E elapsed \in Elapsed(times) : times' = Append(times, elapsed)
           /\ cases' = cases \cup {img_info.case}
           /\ IF i >= Len(other.images)
              THEN /\ end_time' = "set"
                   /\ last_case' = last_case
                   /\ other' = [other EXCEPT !.labels = lbls, !.index = i,
                                    !.window = IF variant = "clinical" THEN "review"
                                               ELSE IF io = "ok" THEN "closed"
                                               ELSE "labelling"]
              ELSE /\ end_time' = end_time
                   /\ last_case' = other.images[i + 1].case
                   /\ other' = [other EXCEPT !.labels = lbls, !.index = i,
                                    !.banner = new_case(last_case, other.images[i + 1].case)]
    /\ last_event' = Event("other_save_label", "stored", index)
    /\ UNCHANGED <<variant, images, navVars, labels, image_start_time, dialogs,
                   formVars, banner, label_count, window, final_export, shown,
                   sessions, output_file>>

\* the launcher starts on a short catalog
InitLauncher == Init /\ Len(images) <= LauncherImages

\* The annotator of the launcher study labels with one button per tool,
\* steps back and forth and ends the session; the launcher opens further
\* windows.  The handlers are those of Next.
NextLauncher ==
    \/ C_label_button("Suspicious")
    \/ C_go_back
    \/ \E io \in IoOutcomes : R_save(io)
    \/ R_close
    \/ select_primary("Normal")
    \/ \E io \in H_io : save_label_simple("Stroma", <<>>, io)
    \/ next_image
    \/ H_go_back
    \/ \E imgs \in LauncherCatalogs : run_again(imgs)
    \/ \E imgs \in LauncherCatalogs : run_beside(imgs)
    \/ \E io \in IoOutcomes : O_save_label(io)

SpecLauncher == InitLauncher /\ [][NextLauncher]_vars

\* ======================================================================
\* The exported file: _write_csv through csv.DictWriter, and a csv reader
\* ======================================================================

\* longest catalog whose stores are written to a file
ExportImages == 2

\* stripped comments a record may hold: none, a word, two lines, two lines
\* parted by a carriage return and a line feed, a comma, quotation marks
ExportTexts == {<<>>, <<"a">>, <<"a", "\n", "b">>, <<"a", "\r", "\n", "b">>,
                <<"a", ",", "b">>, <<"\"", "a", "\"">>}

\* the records save_label / save_label_to_storage can have stored for img
ExportRecords(img) ==
    IF variant = "clinical"
    THEN {[case |-> img.case, file |-> img.file, label |-> "Suspicious",
           comment |-> <<>>]}
         \cup {[case |-> img.case, file |-> img.file, label |-> "NA", comment |-> c] :
                  c \in ExportTexts}
    ELSE {[case |-> img.case, file |-> img.file, diagnosis |-> "Normal",
           subtype |-> "Stroma", comment |-> c] : c \in ExportTexts}
         \cup {[case |-> img.case, file |-> img.file, diagnosis |-> "Indeterminate",
                subtype |-> "", comment |-> c] : c \in ExportTexts \ {<<>>}}

\* the stores over the catalog: a record for some of its images
ExportStores ==
    LET keys == {KeyAt(i) : i \in 0..(N - 1)}
        img(k) == ImageOf(CHOOSE i \in 0..(N - 1) : KeyAt(i) = k)
        recs == UNION {ExportRecords(images[j]) : j \in 1..N}
    IN  UNION {{f \in [ks -> recs] : \A k \in ks : f[k] \in ExportRecords(img(k))} :
                  ks \in SUBSET keys}

\* fieldnames of the DictWriter.  Left out: the visit column and the grading
\* tool's site, magnification, annotator and timestamp columns, which are
\* copied like the case column.
fieldnames ==
    IF variant = "clinical"
    THEN <<"case", "file", "label", "comment">>
    ELSE <<"Case_ID", "Image_File", "Diagnosis", "Subtype", "Comment", "Time_Spent_sec">>

\* the characters of a value that is not a comment: one token, none for ""
Chars(v) == IF v = "" THEN <<>> ELSE <<v>>

\* Time_Spent_sec of the i-th row written (i counts from 0):
\* SESSION['times'][i] if i < len(SESSION["times"]) else "0"
time_spent(i, ts) == IF i < Len(ts) THEN ToString(ts[i + 1]) ELSE "0"

\* the dict passed to writer.writerow for the i-th row r of write_csv, as
\* the list of its values in the order of fieldnames
row_values(r, i, ts) ==
    IF variant = "clinical"
    THEN <<Chars(r.case), Chars(r.file), Chars(r.label), r.comment>>
    ELSE <<Chars(r.case), Chars(r.file), Chars(r.diagnosis), Chars(r.subtype),
           r.comment, Chars(time_spent(i, ts))>>

\* csv.writer: a quotation mark inside a quoted field is doubled
RECURSIVE csv_escape(_)
csv_escape(f) ==
    IF f = <<>> THEN <<>>
    ELSE (IF Head(f) = "\"" THEN <<"\"", "\"">> ELSE <<Head(f)>>) \o csv_escape(Tail(f))

\* csv.QUOTE_MINIMAL: a field is quoted when it holds the delimiter, the
\* quotation mark or a character of the line terminator
csv_field(f) ==
    IF \E i \in 1..Len(f) : f[i] \in {",", "\"", "\r", "\n"}
    THEN <<"\"">> \o csv_escape(f) \o <<"\"">>
    ELSE f

\* one written line: the fields parted by commas, ended by "\r\n"
RECURSIVE csv_line(_)
csv_line(values) ==
    IF Len(values) = 1 THEN csv_field(values[1]) \o <<"\r", "\n">>
    ELSE csv_field(Head(values)) \o <<",">> \o csv_line(Tail(values))

\* the lines of the rows from the i-th on
RECURSIVE csv_lines(_, _, _)
csv_lines(rows, i, ts) ==
    IF i >= Len(rows) THEN <<>>
    ELSE csv_line(row_values(rows[i + 1], i, ts)) \o csv_lines(rows, i + 1, ts)

\* _write_csv: the text of the file written for the store lbls
csv_text(lbls, ts) ==
    csv_line([j \in 1..Len(fieldnames) |-> Chars(fieldnames[j])])
        \o csv_lines(write_csv(lbls), 0, ts)

\* csv.reader over the text t: fld is the field and row the line being
\* read, rows the lines read, quoted whether a quoted field is open
RECURSIVE csv_parse(_, _, _, _, _)
csv_parse(t, fld, row, rows, quoted) ==
    IF t = <<>>
    THEN IF fld # <<>> \/ row # <<>> THEN Append(rows, Append(row, fld)) ELSE rows
    ELSE LET c == Head(t)
             rest == Tail(t)
         IN  IF quoted
             THEN IF c = "\""
                  THEN IF rest # <<>> /\ Head(rest) = "\""
                       THEN csv_parse(Tail(rest), Append(fld, "\""), row, rows, TRUE)
                       ELSE csv_parse(rest, fld, row, rows, FALSE)
                  ELSE csv_parse(rest, Append(fld, c), row, rows, TRUE)
             ELSE IF c = "\"" /\ fld = <<>>
                  THEN csv_parse(rest, fld, row, rows, TRUE)
                  ELSE IF c = ","
                       THEN csv_parse(rest, <<>>, Append(row, fld), rows, FALSE)
                       ELSE IF c \in {"\r", "\n"}
                            THEN csv_parse(IF c = "\r" /\ rest # <<>> /\ Head(rest) = "\n"
                                           THEN Tail(rest) ELSE rest,
                                           <<>>, <<>>, Append(rows, Append(row, fld)), FALSE)
                            ELSE csv_parse(rest, Append(fld, c), row, rows, FALSE)

\* csv.DictReader: every line after the first as a mapping from the names
\* in the first line to the fields of the line
csv_read(t) ==
    LET lines == csv_parse(t, <<>>, <<>>, <<>>, FALSE)
        names == lines[1]
    IN  [i \in 1..(Len(lines) - 1) |->
            [name \in {names[j][1] : j \in 1..Len(names)} |->
                lines[i + 1][CHOOSE j \in 1..Len(names) : names[j] = <<name>>]]]

\* a window over a short catalog whose store holds some records
InitExport ==
    /\ variant \in Variants
    /\ images \in {c \in CatalogsOf(variant) : Len(c) <= ExportImages}
    /\ index = 0
    /\ labels \in ExportStores
    /\ history = IF variant = "clinical" THEN <<KeyAt(0)>> ELSE <<>>
    /\ pointer = IF variant = "clinical" THEN 0 ELSE -1
    /\ image_start_time = "set"
    /\ dialogs = <<>>
    /\ current_grading = EmptyDict
    /\ secondary = "none"
    /\ save_button = FALSE
    /\ times = <<>>
    /\ cases = {labels[k].case : k \in DOMAIN labels}
    /\ last_case = ImageOf(0).case
    /\ end_time = "None"
    /\ label_count = IF variant = "clinical" THEN C_counts(labels)
                                              ELSE H_progress(labels)
    /\ window = "labelling"
    /\ final_export = "none"
    /\ shown = {0}
    /\ last_event = Event("init", "shown", 0)
    /\ banner = FALSE
    /\ sessions = 1
    /\ other = NoWindow
    /\ output_file = <<>>

\* _write_csv: the file is written; the store is read, not changed
write_csv_file ==
    /\ window = "labelling"
    /\ output_file' = csv_text(labels, times)
    /\ UNCHANGED <<variant, images, navVars, labels, image_start_time, dialogs,
                   formVars, sessVars, banner, label_count, window, final_export,
                   shown, last_event, sessions, other>>

\* the annotator clears records and writes the file
NextExport ==
    \/ write_csv_file
    \/ C_relabel_current
    \/ H_relabel_current

SpecExport == InitExport /\ [][NextExport]_vars

\* ======================================================================
\* Properties
\* ======================================================================

\* the record a submission observed by e must leave under its key
ExpectedRecord(e) ==
    IF variant = "clinical"
    THEN [case |-> ImageOf(e.at).case, file |-> ImageOf(e.at).file,
          label |-> e.category, comment |-> e.comment]
    ELSE [case |-> ImageOf(e.at).case, file |-> ImageOf(e.at).file,
          diagnosis |-> e.category, subtype |-> e.subtype, comment |-> e.comment]

CatalogKeys == {KeyAt(i) : i \in 0..(N - 1)}

\* C1: in both variants a step that stores a submission leaves, under the
\* key of the image it was made for, exactly the submitted record (every
\* field new, nothing kept from the record it replaces), adds no other key
\* and changes no other record; the store never holds a key that is not a
\* catalog key, so never two records for one image.
C1_UpsertReplacesWholeRecord ==
    [][(last_event' # last_event /\ last_event'.result = "stored") =>
          /\ last_event'.at = index
          /\ last_event'.replaced = (KeyAt(index) \in DOMAIN labels)
          /\ DOMAIN labels' = (DOMAIN labels) \cup {KeyAt(index)}
          /\ labels'[KeyAt(index)] = ExpectedRecord(last_event')
          /\ \A k \in (DOMAIN labels) \ {KeyAt(index)} : labels'[k] = labels[k]
          /\ DOMAIN labels' \subseteq CatalogKeys
          /\ Cardinality(DOMAIN labels') <= N]_vars

\* a submission has just replaced the record of an image that had one
C1_Witness ==
    /\ last_event.result = "stored"
    /\ last_event.replaced
    /\ labels[KeyAt(last_event.at)] = ExpectedRecord(last_event)
    /\ last_event.comment = <<>>

\* a comment that carries text: not empty and not whitespace alone
HasText(comment) == \E i \in 1..Len(comment) : comment[i] \notin Whitespace

\* the category/subtype combinations of a complete grading record
RecordComplete(r) ==
    IF r.diagnosis = "Normal" THEN r.subtype \in Tissues
    ELSE IF r.diagnosis = "Indeterminate" THEN r.subtype = "" /\ HasText(r.comment)
    ELSE IF r.diagnosis = "Dysplasia"
    THEN \/ r.subtype = "Ungradable" /\ HasText(r.comment)
         \/ \E b \in BinaryGrades, t \in ThreeTierGrades :
                r.subtype = "Binary:" \o b \o "|ThreeTier:" \o t
    ELSE IF r.diagnosis = "Cancer"
    THEN \/ r.subtype = "Ungradable" /\ HasText(r.comment)
         \/ \E d \in DiffGrades : r.subtype = "ThreeTier:" \o d
    ELSE FALSE

\* C2: every record the grading variant stores has a complete combination
\* of category and subtype: Normal with a tissue, Indeterminate with an
\* empty subtype and a comment, Dysplasia and Cancer either Ungradable with
\* a comment or with every tier of the category.
C2_RecordsComplete ==
    variant = "histopath" => \A k \in DOMAIN labels : RecordComplete(labels[k])

\* a SAVE button left by "ungradable" is on screen for a Dysplasia grading
\* with one tier only, and the store holds an ungradable Dysplasia record
C2_Witness ==
    /\ variant = "histopath"
    /\ save_button
    /\ Get(current_grading, "diagnosis", "None") = "Dysplasia"
    /\ ~Has(current_grading, "ungradable")
    /\ Has(current_grading, "binary") /\ ~Has(current_grading, "three_tier")
    /\ \E k \in DOMAIN labels :
           /\ labels[k].diagnosis = "Dysplasia"
           /\ labels[k].subtype = "Ungradable"

\* C3: in the simple variant every stored NA record has a non-empty
\* comment (an NA submission with an empty comment is rejected).
C3_NAHasComment ==
    variant = "clinical" =>
        \A k \in DOMAIN labels : labels[k].label = "NA" => labels[k].comment # <<>>

\* a comment box whose content is empty or whitespace alone
MissingComment(typed) == \A i \in 1..Len(typed) : typed[i] \in Whitespace

\* what the form holds lacks a field the category requires
IncompleteGrading(typed) ==
    IF Get(current_grading, "ungradable", FALSE) THEN MissingComment(typed)
    ELSE IF Get(current_grading, "diagnosis", "None") = "Dysplasia"
    THEN ~(Has(current_grading, "binary") /\ Has(current_grading, "three_tier"))
    ELSE IF Get(current_grading, "diagnosis", "None") = "Cancer"
    THEN ~Has(current_grading, "three_tier_diff")
    ELSE FALSE

\* a grading submission of the kind that is to be rejected
C4_RejectedSubmission ==
    \E typed \in Texts, io \in IoOutcomes :
        \/ /\ secondary = "Indeterminate" /\ MissingComment(typed)
           /\ save_label_simple("", typed, io)
        \/ /\ IncompleteGrading(typed)
           /\ save_multi_tier_label(typed, io)

\* a grading submission that stores a record and advances
C4_SimpleSucceeds(typed) ==
    \E io \in IoOutcomes :
        /\ save_label_simple("", typed, io)
        /\ index' = index + 1 /\ last_event'.result = "stored"

C4_MultiSucceeds(typed) ==
    \E io \in IoOutcomes :
        /\ save_multi_tier_label(typed, io)
        /\ index' = index + 1 /\ last_event'.result = "stored"

\* wherever a submission can be rejected for a missing field, the same
\* submission with the field supplied succeeds (while the explored length
\* of the duration list leaves room for one more entry)
C4_RetrySucceeds ==
    (variant = "histopath" /\ window = "labelling" /\ Len(times) < MaxTimes) =>
        /\ (secondary = "Indeterminate"
               /\ Get(current_grading, "diagnosis", "None") = "Indeterminate") =>
               ENABLED C4_SimpleSucceeds(<<"r">>)
        /\ (save_button /\ H_shows_save(current_grading)) =>
               ENABLED C4_MultiSucceeds(<<"r">>)

\* C4: in the grading variant a rejected submission (Indeterminate or
\* Ungradable without a comment, Dysplasia without both tiers, Cancer
\* without its tier) leaves the store, the position and the durations
\* unchanged, and the same submission repeated with the missing field
\* supplied succeeds.
C4_RejectionLeavesStateAndRetrySucceeds ==
    /\ [][C4_RejectedSubmission => UNCHANGED <<labels, index, times>>]_vars
    /\ []C4_RetrySucceeds

\* images of the catalog whose current record has category cat
ImagesWith(field, cat) ==
    Cardinality({i \in 0..(N - 1) :
                    KeyAt(i) \in DOMAIN labels /\ labels[KeyAt(i)][field] = cat})

\* C5: in both variants the per-category counts shown (simple variant) and
\* exported equal the number of catalog images whose current record has the
\* category; no image counts twice, and the counts sum to the size of the
\* store, which is at most N.
C5_CountsMatchStore ==
    /\ Cardinality(DOMAIN labels) <= N
    /\ variant = "clinical" =>
          LET c == C_summary_counts(labels)
          IN  /\ c.Suspicious = ImagesWith("label", "Suspicious")
              /\ c.NonSuspicious = ImagesWith("label", "Non-Suspicious")
              /\ c.NA = ImagesWith("label", "NA")
              /\ c.Suspicious + c.NonSuspicious + c.NA = Cardinality(DOMAIN labels)
              /\ window = "labelling" =>
                    /\ label_count.total = Cardinality(DOMAIN labels)
                    /\ label_count.Suspicious = c.Suspicious
                    /\ label_count.NonSuspicious = c.NonSuspicious
                    /\ label_count.NA = c.NA
    /\ variant = "histopath" =>
          LET c == H_summary_counts(labels)
              count(d) == IF d \in DOMAIN c THEN c[d] ELSE 0
          IN  /\ DOMAIN c \subseteq Diagnoses
              /\ \A d \in Diagnoses : count(d) = ImagesWith("diagnosis", d)
              /\ count("Normal") + count("Dysplasia") + count("Cancer")
                     + count("Indeterminate") = Cardinality(DOMAIN labels)

\* an image was labelled a second time while another image holds a record
C5_Witness ==
    /\ last_event.result = "stored"
    /\ last_event.replaced
    /\ Cardinality(DOMAIN labels) >= 2
    /\ window = "labelling"

\* C6: in both variants the position stays within 0..N.
C6_PositionInRange == index \in 0..N

\* a submission at the last position has left the position at N, and the
\* window with its navigation handlers is still open
C6_Witness ==
    /\ index = N
    /\ window = "labelling"
    /\ last_event.result = "stored"

\* C7: in the simple variant a step back is accepted only when the history
\* holds a prior distinct position: the position after an accepted step
\* back differs from the position before it.
C7_StepBackMoves ==
    (variant = "clinical" /\ last_event.name = "go_back") => index # last_event.at

\* C8: the history of the simple variant never holds two equal consecutive
\* entries.
C8_NoConsecutiveDuplicates ==
    \A i \in 1..(Len(history) - 1) : history[i] # history[i + 1]

\* the session has finished: the position is past the last image
Finished == index >= N

\* C9: in both variants the session finishes only after every position
\* 0..N-1 has been displayed.
C9_FinishedAfterAllDisplayed == Finished => shown = 0..(N - 1)

\* C9 as amended: the simple variant finishes only after every position has
\* been displayed; the grading variant finishes only after the last
\* position has been displayed and labelled (a jump may skip the others).
C9_FinishedAfterLastDisplayed ==
    Finished =>
        /\ (N - 1) \in shown
        /\ KeyAt(N - 1) \in DOMAIN labels
        /\ variant = "clinical" => shown = 0..(N - 1)

\* the grading variant has finished after a jump over undisplayed positions
C9_Witness ==
    /\ variant = "histopath"
    /\ Finished
    /\ shown # 0..(N - 1)
    /\ (N - 1) \in shown

\* C10: in both variants a submission stored at position p leaves the
\* position at exactly p + 1, also when p + 1 holds a record already, and
\* the session finishes exactly when p + 1 = N.
C10_SubmissionAdvancesByOne ==
    last_event.result = "stored" =>
        /\ index = last_event.at + 1
        /\ (end_time = "set" /\ window # "labelling") => index = N
        /\ index = N => end_time = "set"
        /\ index < N => window = "labelling"

\* a submission has left the position on an image that holds a record
C10_Witness ==
    /\ last_event.result = "stored"
    /\ index = last_event.at + 1
    /\ index < N
    /\ KeyAt(index) \in DOMAIN labels

\* C11: in both variants Finished is terminal: once the position equals N no
\* later event changes the position, the label store or the durations, also
\* when the export at completion failed.
C11_FinishedIsTerminal ==
    [][Finished => UNCHANGED <<index, labels, times>>]_vars

\* C12: in both variants reaching Finished performs the final export of the
\* label store without a further user choice, and no session that reached
\* Finished ends with the labels never written.
C12_FinishedExportsLabels ==
    /\ Finished => final_export # "none"
    /\ (Finished /\ window = "closed") => final_export = "written"

\* C13: in both variants ClearCurrent removes exactly the record of the
\* image at the current position when there is one and otherwise removes
\* nothing; the position, every other record and the durations are unchanged.
C13_ClearCurrentRemovesOneRecord ==
    [][(C_relabel_current \/ H_relabel_current) =>
          /\ index' = index
          /\ times' = times
          /\ IF index < N
             THEN /\ DOMAIN labels' = (DOMAIN labels) \ {KeyAt(index)}
                  /\ \A k \in DOMAIN labels' : labels'[k] = labels[k]
             ELSE labels' = labels]_vars

\* the record of the current image has just been cleared while another
\* image keeps its record and durations are recorded
C13_Witness ==
    /\ last_event.name = "relabel_current"
    /\ index = last_event.at
    /\ KeyAt(index) \notin DOMAIN labels
    /\ labels # EmptyDict
    /\ times # <<>>

\* C14: grading variant: a JumpTo whose target p lies in [0, N) sets the
\* position to p and leaves the label store and the durations unchanged; a
\* JumpTo whose computed target lies outside [0, N) changes nothing.
C14_JumpToMovesOnlyThePosition ==
    [][\A x \in 0..(CanvasWidth - 1) :
          on_progress_click(x) =>
              /\ labels' = labels
              /\ times' = times
              /\ IF progress_target(x) \in 0..(N - 1)
                 THEN index' = progress_target(x)
                 ELSE UNCHANGED vars]_vars

\* a jump has moved the position forward over an image, with records and
\* durations present
C14_Witness ==
    /\ last_event.name = "on_progress_click"
    /\ index > last_event.at + 1
    /\ labels # EmptyDict
    /\ times # <<>>

\* C15: a StepBack at position 0 (both variants) and a Next at the last
\* position N-1 (grading variant) are rejected and leave the position, the
\* history, the label store and the durations unchanged.
C15_BoundaryStepsChangeNothing ==
    [][(\/ index = 0 /\ (C_go_back \/ H_go_back)
        \/ index = N - 1 /\ next_image) =>
          UNCHANGED <<index, history, pointer, labels, times>>]_vars

\* the first position has been reached again by a step back: the history
\* holds later entries and the store holds records
C15_Witness ==
    /\ index = 0
    /\ last_event.name = "go_back"
    /\ variant = "clinical"
    /\ Len(history) > 1
    /\ labels # EmptyDict

\* C16: in both variants an accepted StepBack removes exactly the most
\* recently recorded duration when there is one (earlier entries unchanged,
\* nothing removed from an empty sequence) and never adds, removes or
\* changes a record of the label store.
C16_StepBackPopsLastDuration ==
    [][(C_go_back \/ H_go_back) =>
          /\ labels' = labels
          /\ times' = [i \in 1..(IF times = <<>> THEN 0 ELSE Len(times) - 1) |-> times[i]]]_vars

\* a step back has left one of several recorded durations
C16_Witness ==
    /\ last_event.name = "go_back"
    /\ times = <<1>>
    /\ Cardinality(DOMAIN labels) >= 2

\* position in the catalog of the image a written row belongs to
CatalogPositionOf(row) ==
    CHOOSE p \in 0..(N - 1) : ImageOf(p).case = row.case /\ ImageOf(p).file = row.file

\* C17: in both variants the exported table has exactly one row per stored
\* record and the rows appear in the relative order of their images in the
\* catalog.
C17_ExportInCatalogOrder ==
    LET rows == write_csv(labels)
    IN  /\ Len(rows) = Cardinality(DOMAIN labels)
        /\ \A k \in DOMAIN labels :
               Cardinality({i \in 1..Len(rows) :
                               /\ rows[i].case = labels[k].case
                               /\ rows[i].file = labels[k].file}) = 1
        /\ \A i, j \in 1..Len(rows) :
               i < j => CatalogPositionOf(rows[i]) < CatalogPositionOf(rows[j])

\* C18: in both variants an export whose write fails is reported and leaves
\* the label store, the position and the history as they were when the
\* export was invoked, with the window still open for another save; the
\* export inside the grading tool's finish leaves what the submission stored.
C18_FailedExportKeepsState ==
    /\ [][(C_save_progress("fail") \/ H_save_progress("fail") \/ R_save("fail")) =>
             /\ UNCHANGED <<labels, index, history, pointer>>
             /\ window' = window
             /\ last_event'.result \in {"error", "fail"}]_vars
    /\ [][(variant = "histopath" /\ index < N /\ index' = N /\ final_export' = "failed") =>
             /\ window' = "labelling"
             /\ DOMAIN labels' = (DOMAIN labels) \cup {KeyAt(index)}
             /\ \A k \in (DOMAIN labels) \ {KeyAt(index)} : labels'[k] = labels[k]
             /\ UNCHANGED <<history, pointer>>]_vars

\* a partial export has just failed on a store that holds records
C18_Witness ==
    /\ last_event.name = "save_progress"
    /\ last_event.result = "error"
    /\ labels # EmptyDict
    /\ index > 0
    /\ window = "labelling"

\* C19: in both variants SaveProgress, whether it succeeds, fails or finds
\* an empty store, never sets the end timestamp and leaves the label store,
\* the position, the history and the durations unchanged; the end timestamp
\* is set only by a step that finishes the session.
C19_SaveProgressSetsNoEndTime ==
    /\ [][(\E io \in IoOutcomes : C_save_progress(io) \/ H_save_progress(io)) =>
             UNCHANGED <<end_time, labels, index, history, pointer, times>>]_vars
    /\ [][end_time' # end_time => (index < N /\ index' = N)]_vars

\* a partial export has succeeded in a session that is not finished
C19_Witness ==
    /\ last_event.name = "save_progress"
    /\ last_event.result = "saved"
    /\ end_time = "None"
    /\ times # <<>>

\* C20: in both variants the set of cases recorded in the session
\* statistics equals the set of cases of the records currently in the label
\* store, in every reachable state.
C20_CasesMatchStore ==
    cases = {labels[k].case : k \in DOMAIN labels}

\* a session has just been started by the launcher in a window of its own
\* (the first one, or one after the previous window has gone) and nothing
\* was done since
SessionJustStarted == last_event.name \in {"init", "run"} /\ last_event.result = "shown"

\* C21: in both variants every session the launcher starts begins with an
\* empty duration sequence, an empty case set, no end timestamp and no
\* remembered previous case (so its first display raises no banner), also
\* when it is the second session of the process.
C21_SessionStartsEmpty ==
    SessionJustStarted =>
        /\ times = <<>>
        /\ cases = {}
        /\ end_time = "None"
        /\ ~banner

\* two labelling windows are open
TwoWindows == window = "labelling" /\ other.window = "labelling"

\* C22: while two labelling windows are open, an event of the second window
\* changes neither the store, the navigation state nor the session
\* statistics (durations, cases, last case) of the first, and an event of
\* the first changes neither the second window's store and position nor the
\* statistics the second session reads.
C22_WindowsAreIsolated ==
    [][TwoWindows =>
          IF other' # other
          THEN UNCHANGED <<labels, navVars, times, cases, last_case>>
          ELSE UNCHANGED <<times, cases, last_case>>]_vars

\* the position whose image the window shows
Displayed == IF index < N THEN index ELSE N - 1

\* C23: in both variants the display of a position raises the case-changed
\* banner exactly when its case differs from the case of the position the
\* window displayed immediately before, and the first display of a session
\* never raises it.
C23_BannerIffCaseChanged ==
    [][IF sessions' # sessions /\ other' = other
       THEN ~banner'
       ELSE (index' # index /\ index' < N) =>
                (banner' <=> ImageOf(Displayed).case # ImageOf(index').case)]_vars

\* the comment c with every line feed and every carriage return replaced by
\* one space
SpacedComment(c) ==
    [i \in 1..Len(c) |-> IF c[i] = "\n" \/ c[i] = "\r" THEN " " ELSE c[i]]

\* the row read back holds the fields of the record r
RowMatches(row, r) ==
    IF variant = "clinical"
    THEN /\ row["case"] = Chars(r.case)
         /\ row["file"] = Chars(r.file)
         /\ row["label"] = Chars(r.label)
         /\ row["comment"] = SpacedComment(r.comment)
    ELSE /\ row["Case_ID"] = Chars(r.case)
         /\ row["Image_File"] = Chars(r.file)
         /\ row["Diagnosis"] = Chars(r.diagnosis)
         /\ row["Subtype"] = Chars(r.subtype)
         /\ row["Comment"] = SpacedComment(r.comment)

C25_FinishedMeansAllLabelled ==
    (variant = "clinical" /\ Finished) => DOMAIN labels = CatalogKeys

\* Time_Spent_sec in the row the export of the store lbls writes for the
\* record under key k, when ts are the recorded durations
TimeSpentOf(k, lbls, ts) ==
    LET rows == write_csv(lbls)
        i == CHOOSE j \in 1..Len(rows) :
                 rows[j].case = lbls[k].case /\ rows[j].file = lbls[k].file
    IN  time_spent(i - 1, ts)

\* C26: grading variant: once a submission has stored the record of an image
\* and recorded its duration, the exported row of that image carries that
\* duration as Time_Spent_sec, in whatever order the images were labelled.
C26_TimeSpentIsTheRecordedDuration ==
    [][(/\ variant = "histopath"
        /\ last_event' # last_event
        /\ last_event'.result = "stored"
        /\ Len(times') = Len(times) + 1) =>
          TimeSpentOf(KeyAt(index), labels', times') = ToString(times'[Len(times')])]_vars

\* C27: simple variant: a label submitted through an NA comment dialog is
\* recorded on the image that was displayed when a dialog open at that
\* moment was opened (with one dialog open: when that dialog was opened).
C27_DialogLabelsItsOwnImage ==
    [][(/\ variant = "clinical"
        /\ last_event' # last_event
        /\ last_event'.result = "stored"
        /\ last_event'.category = "NA") =>
          \E d \in 1..Len(dialogs) : dialogs[d] = last_event'.at]_vars

\* the window offers a label submission: a label button of the clinical
\* tool, or a tissue button, an Indeterminate save button or the SAVE
\* button of the grading tool
SubmissionOffered ==
    /\ window = "labelling"
    /\ \/ variant = "clinical"
       \/ secondary \in {"Normal", "Indeterminate"}
       \/ save_button

\* C28: in both variants, whenever the window offers a label submission the
\* position is in [0, N), so that no submission reads the catalog at index
\* N, also after the final export has failed and the window stayed open.
C28_SubmissionFindsPosition == SubmissionOffered => index < N

\* C29: grading variant: an accepted StepBack that directly follows an
\* accepted Next brings the position back to where the Next was pressed and
\* leaves the store and the duration sequence as they were before the Next
\* (the Next itself changes neither).
C29_NextThenBackRestores ==
    [][(/\ variant = "histopath"
        /\ last_event.name = "next_image"
        /\ index = last_event.at + 1
        /\ last_event'.name = "go_back") =>
          /\ index' = last_event.at
          /\ labels' = labels
          /\ times' = times]_vars

\* C30: simple variant, one session started with empty statistics: in every
\* reachable state the duration sequence has at most as many entries as the
\* store has records.
C30_DurationsAtMostRecords ==
    variant = "clinical" => Len(times) <= Cardinality(DOMAIN labels)

\* a record has just been cleared and the store still holds as many records
\* as durations are recorded, at least one
C30_Witness ==
    /\ variant = "clinical"
    /\ last_event.name = "relabel_current"
    /\ times # <<>>
    /\ Len(times) = Cardinality(DOMAIN labels)

====
